---- MODULE Spec2Model ----
(***************************************************************************)
(* Flow manager: FlowManager.execute_flow and the execution store of       *)
(* src/flow_manager.py, with the data model of src/models.py.              *)
(*                                                                         *)
(* execute_flow is an asyncio coroutine.  Its only suspension point is the *)
(* await of task.execute (flow_manager.py:155); everything between two     *)
(* awaits runs without interleaving, so one action models the code from    *)
(* one await to the next.  Several execute_flow coroutines may be alive at *)
(* once (api.py:193-196 schedules one per request).                        *)
(***************************************************************************)
EXTENDS Integers, Sequences, FiniteSets, TLC

\* Bounds of the model.
MaxExecs == 2      \* create_flow_execution calls
MaxCalls == 2      \* execute_flow calls
MaxDispatch == 3   \* tasks dispatched by one execute_flow call
MaxTasks == 2      \* tasks in a flow document

None == "None"
END == "end"

\* models.py TaskStatus / FlowStatus values
TaskStatus == {"pending", "running", "success", "failure", "skipped"}
FlowStatus == {"created", "running", "success", "failure", "ended"}

\* Statuses an executor hands back in its TaskResult.
ReturnedStatus == {"success", "failure", "skipped"}
\* An executor either returns a TaskResult or raises.
Outcomes == ReturnedStatus \cup {"raise"}

TaskConfig(n, t) == [name |-> n, task_type |-> t]

ConditionConfig(src, o, s, f) ==
    [source_task |-> src, outcome |-> o,
     target_task_success |-> s, target_task_failure |-> f]

FlowConfig(nm, st, ts, cs) ==
    [name |-> nm, start_task |-> st, tasks |-> ts, conditions |-> cs]

\* TaskFactory._task_registry
task_registry == {"fetch_data", "process_data", "store_data"}

\* The class bound to each key as the module is imported (flow_manager.py:24-28)
ShippedRegistry ==
    [task_type \in task_registry |->
        CASE task_type = "fetch_data" -> "FetchDataTask"
          [] task_type = "process_data" -> "ProcessDataTask"
          [] task_type = "store_data" -> "StoreDataTask"]

ThreeTasks ==
    << TaskConfig("task1", "fetch_data"),
       TaskConfig("task2", "process_data"),
       TaskConfig("task3", "store_data") >>

\* The flow of api.py sample_config and of test_flow_manager.py.
ChainFlow ==
    FlowConfig("chain", "task1", ThreeTasks,
        << ConditionConfig("task1", "success", "task2", END),
           ConditionConfig("task2", "success", "task3", END) >>)

\* The flow shape of tests/test_flow_success.py: three tasks, no condition.
NoCondFlow == FlowConfig("nocond", "task1", ThreeTasks, << >>)

\* A failure of task1 is routed to task3 instead of the sentinel.
RerouteFlow ==
    FlowConfig("reroute", "task1", ThreeTasks,
        << ConditionConfig("task1", "success", "task2", "task3") >>)

\* outcome "failure": a FAILURE of task1 selects target_task_success = task1.
RetryFlow ==
    FlowConfig("retry", "task1", << TaskConfig("task1", "fetch_data") >>,
        << ConditionConfig("task1", "failure", "task1", END) >>)

\* Stops after task1 whatever its result; outcome is neither success nor failure.
EarlyFlow ==
    FlowConfig("early", "task1",
        << TaskConfig("task1", "fetch_data"), TaskConfig("task2", "process_data") >>,
        << ConditionConfig("task1", "always", END, END) >>)

\* task2 has an unregistered task_type; "ghost" names no task.
BrokenFlow ==
    FlowConfig("broken", "task1",
        << TaskConfig("task1", "fetch_data"), TaskConfig("task2", "print") >>,
        << ConditionConfig("task1", "success", "task2", "ghost") >>)

\* A task named like the sentinel, and the sentinel as start_task.
SentinelFlow ==
    FlowConfig("sentinel", END, << TaskConfig(END, "store_data") >>, << >>)

\* The condition of the branching scenario: task1 leads to task3 on success
\* and to the sentinel on failure.
BranchFlow ==
    FlowConfig("branch", "task1", ThreeTasks,
        << ConditionConfig("task1", "success", "task3", END) >>)

FlowConfigs ==
    {ChainFlow, NoCondFlow, RerouteFlow, RetryFlow, EarlyFlow, BrokenFlow, SentinelFlow,
     BranchFlow}

\* create_flow_execution keeps only the name of its flow_config
\* (flow_manager.py:120-124); two names are enough to tell records apart.
CreateConfigs == {ChainFlow, RetryFlow}

VARIABLES
    active_flows,   \* keys of FlowManager.active_flows
    states,         \* the FlowExecutionState objects, by flow_id
    calls,          \* the execute_flow coroutines, in call order
    dispatched,     \* per execution id: the tasks whose execute was started
    clock,          \* datetime.now(): per execution id, the reads made for its record so far
    ret,            \* what the last get_flow_status / remove_flow call returned
    evaluated,      \* an evaluate_condition call: its arguments and its result
    registry        \* TaskFactory._task_registry: the class bound to each task_type

vars == <<active_flows, states, calls, dispatched, clock, ret, evaluated, registry>>

\* The variables the engine's operations do not touch
aux == <<ret, evaluated, registry>>

ExecIds == 1..MaxExecs

\* Python truthiness of an Optional[str]
Truthy(x) == x # None /\ x # ""

\* The least index of a non-empty set of indices: the element a for loop
\* over a list reaches first (models.py:107-110 and 114-117).
First(idx) == CHOOSE i \in idx : \A j \in idx : i <= j

\* The None returned by get_task_by_name / get_condition_for_task
NoTask == TaskConfig(None, None)

NoCondition == ConditionConfig(None, None, None, None)

\* FlowConfig.get_task_by_name
get_task_by_name(cfg, task_name) ==
    LET idx == {i \in 1..Len(cfg.tasks) : cfg.tasks[i].name = task_name}
    IN IF idx = {} THEN NoTask ELSE cfg.tasks[First(idx)]

\* FlowConfig.get_condition_for_task
get_condition_for_task(cfg, task_name) ==
    LET idx == {i \in 1..Len(cfg.conditions) : cfg.conditions[i].source_task = task_name}
    IN IF idx = {} THEN NoCondition ELSE cfg.conditions[First(idx)]

\* evaluate_condition with the "failure" branch un-inverted
evaluate_condition_uninverted(condition, status) ==
    IF condition.outcome = "success"
    THEN IF status = "success" THEN condition.target_task_success
         ELSE condition.target_task_failure
    ELSE IF condition.outcome = "failure"
    THEN IF status = "failure" THEN condition.target_task_failure
         ELSE condition.target_task_success
    ELSE IF status = "failure" THEN condition.target_task_failure
         ELSE condition.target_task_success

\* evaluate_condition taking the success target whatever the status
evaluate_condition_always_success(condition, status) == condition.target_task_success

\* ConditionEvaluator.evaluate_condition
evaluate_condition(condition, status) ==
    IF condition.outcome = "success"
    THEN IF status = "success" THEN condition.target_task_success
         ELSE condition.target_task_failure
    ELSE IF condition.outcome = "failure"
    THEN IF status = "failure" THEN condition.target_task_success
         ELSE condition.target_task_failure
    ELSE IF status = "failure" THEN condition.target_task_failure
         ELSE condition.target_task_success

\* TaskResult
TaskResult(n, s) == [task_name |-> n, status |-> s]

\* A Python dict as the sequence of its items in insertion order.
DictKeys(d) == {d[i].key : i \in 1..Len(d)}

DictGet(d, k) == (CHOOSE i \in 1..Len(d) : d[i].key = k)

DictValues(d) == {d[i].value : i \in 1..Len(d)}

\* d[k] = v
DictSet(d, k, v) ==
    IF k \in DictKeys(d)
    THEN [d EXCEPT ![DictGet(d, k)] = [key |-> k, value |-> v]]
    ELSE Append(d, [key |-> k, value |-> v])

\* FlowExecutionState(flow_id, flow_name, status=CREATED) and __post_init__
FlowExecutionState(id, name, now) ==
    [flow_id |-> id, flow_name |-> name, current_task |-> None,
     status |-> "created", completed_tasks |-> << >>, task_results |-> << >>,
     started_at |-> now, ended_at |-> None]

Event(e, t, s) == [ev |-> e, task |-> t, status |-> s]

----------------------------------------------------------------------------
\* The pieces of execute_flow.  Each maps the execution_state object es and
\* the coroutine frame c to the pair after the piece has run.

\* The coroutine frame of one execute_flow call.  stop and returned are
\* bookkeeping: why the task loop was left, and the execution_state the call
\* returned (flow_manager.py:202) as it was at that moment.
Frame(id, cfg, pc) ==
    [execution_id |-> id, flow_config |-> cfg, pc |-> pc,
     current_task_name |-> cfg.start_task, context |-> << >>,
     trace |-> << >>, stop |-> None, returned |-> << >>]

Return(es, c, why) ==
    [es |-> es,
     call |-> [c EXCEPT !.pc = "returned", !.stop = why, !.returned = << es >>]]

\* Finalize with the test for a result that is neither SUCCESS nor FAILURE
\* made before the test for a FAILURE
FinalizeEndedFirst(es, c, now, why) ==
    LET results == DictValues(es.task_results)
        all_successful == \A r \in results : r.status = "success"
        any_other == \E r \in results : r.status \notin {"success", "failure"}
        final == IF all_successful THEN "success"
                 ELSE IF any_other THEN "ended" ELSE "failure"
    IN Return([es EXCEPT !.current_task = None, !.ended_at = now, !.status = final],
              c, why)

\* flow_manager.py:175-193 and the return at 202
Finalize(es, c, now, why) ==
    LET results == DictValues(es.task_results)
        all_successful == \A r \in results : r.status = "success"
        any_failed == \E r \in results : r.status = "failure"
        final == IF all_successful THEN "success"
                 ELSE IF any_failed THEN "failure" ELSE "ended"
    IN Return([es EXCEPT !.current_task = None, !.ended_at = now, !.status = final],
              c, why)

\* ExceptHandler that marks the record and lets the exception go on to the
\* caller
ExceptHandlerReraise(es, c, now) ==
    [es |-> [es EXCEPT !.status = "failure", !.ended_at = now, !.current_task = None],
     call |-> [c EXCEPT !.pc = "raised", !.stop = "exception"]]

\* flow_manager.py:195-202
ExceptHandler(es, c, now) ==
    Return([es EXCEPT !.status = "failure", !.ended_at = now, !.current_task = None],
           c, "exception")

\* LoopHead without the registry lookup of create_task: the task is started
\* whatever its task_type
LoopHeadNoRegistry(es, c, now) ==
    LET cur == c.current_task_name IN
    IF Truthy(cur) /\ cur # END
    THEN LET es1 == [es EXCEPT !.current_task = cur]
             task_config == get_task_by_name(c.flow_config, cur)
         IN IF task_config = NoTask
            THEN ExceptHandler([es1 EXCEPT !.status = "failure"], c, now)
            ELSE [es |-> es1,
                  call |-> [c EXCEPT !.pc = "awaiting",
                                     !.trace = Append(@, Event("dispatch", cur, None))]]
    ELSE Finalize(es, c, now, "loop_test")

\* LoopHead without the test for the sentinel: only an empty name ends the
\* loop
LoopHeadNoSentinel(es, c, now) ==
    LET cur == c.current_task_name IN
    IF Truthy(cur)
    THEN LET es1 == [es EXCEPT !.current_task = cur]
             task_config == get_task_by_name(c.flow_config, cur)
         IN IF task_config = NoTask
            THEN ExceptHandler([es1 EXCEPT !.status = "failure"], c, now)
            ELSE IF task_config.task_type \notin task_registry
            THEN ExceptHandler(es1, c, now)
            ELSE [es |-> es1,
                  call |-> [c EXCEPT !.pc = "awaiting",
                                     !.trace = Append(@, Event("dispatch", cur, None))]]
    ELSE Finalize(es, c, now, "loop_test")

\* flow_manager.py:144-155, from the loop test to the await
LoopHead(es, c, now) ==
    LET cur == c.current_task_name IN
    IF Truthy(cur) /\ cur # END
    THEN LET es1 == [es EXCEPT !.current_task = cur]
             task_config == get_task_by_name(c.flow_config, cur)
         IN IF task_config = NoTask
            THEN ExceptHandler([es1 EXCEPT !.status = "failure"], c, now)
            ELSE IF task_config.task_type \notin task_registry
            THEN ExceptHandler(es1, c, now)
            ELSE [es |-> es1,
                  call |-> [c EXCEPT !.pc = "awaiting",
                                     !.trace = Append(@, Event("dispatch", cur, None))]]
    ELSE Finalize(es, c, now, "loop_test")

\* StoreResult with the append skipped for a failed task
StoreResultSkipFailed(es, name, result) ==
    [es EXCEPT !.task_results = DictSet(@, name, result),
               !.completed_tasks = IF result.status = "failure" THEN @ ELSE Append(@, name)]

\* flow_manager.py:157-160
StoreResult(es, name, result) ==
    [es EXCEPT !.task_results = DictSet(@, name, result),
               !.completed_tasks = Append(@, name)]

\* AfterTask with the break on a missing condition left out: the loop goes
\* round with the same current_task_name
AfterTaskNoBreak(es, c, outcome, now) ==
    LET cur == c.current_task_name IN
    IF outcome = "raise"
    THEN ExceptHandler(es, [c EXCEPT !.trace = Append(@, Event("fault", cur, None))], now)
    ELSE LET task_result == TaskResult(cur, outcome)
             es1 == StoreResult(es, cur, task_result)
             c1 == [c EXCEPT !.context = DictSet(@, cur, task_result),
                             !.trace = Append(@, Event("result", cur, outcome))]
             condition == get_condition_for_task(c.flow_config, cur)
         IN IF condition = NoCondition
            THEN LoopHead(es1, c1, now)
            ELSE LET next_task == evaluate_condition(condition, task_result.status)
                     c2 == [c1 EXCEPT !.current_task_name = next_task]
                 IN IF next_task = END THEN Finalize(es1, c2, now, "sentinel")
                    ELSE LoopHead(es1, c2, now)

\* AfterTask with a missing condition treated as an error
AfterTaskNoConditionIsError(es, c, outcome, now) ==
    LET cur == c.current_task_name IN
    IF outcome = "raise"
    THEN ExceptHandler(es, [c EXCEPT !.trace = Append(@, Event("fault", cur, None))], now)
    ELSE LET task_result == TaskResult(cur, outcome)
             es1 == StoreResult(es, cur, task_result)
             c1 == [c EXCEPT !.context = DictSet(@, cur, task_result),
                             !.trace = Append(@, Event("result", cur, outcome))]
             condition == get_condition_for_task(c.flow_config, cur)
         IN IF condition = NoCondition
            THEN ExceptHandler(es1, c1, now)
            ELSE LET next_task == evaluate_condition(condition, task_result.status)
                     c2 == [c1 EXCEPT !.current_task_name = next_task]
                 IN IF next_task = END THEN Finalize(es1, c2, now, "sentinel")
                    ELSE LoopHead(es1, c2, now)

\* flow_manager.py:155-173 after the await, then on to the next await or the end
AfterTask(es, c, outcome, now) ==
    LET cur == c.current_task_name IN
    IF outcome = "raise"
    THEN ExceptHandler(es, [c EXCEPT !.trace = Append(@, Event("fault", cur, None))], now)
    ELSE LET task_result == TaskResult(cur, outcome)
             es1 == StoreResult(es, cur, task_result)
             c1 == [c EXCEPT !.context = DictSet(@, cur, task_result),
                             !.trace = Append(@, Event("result", cur, outcome))]
             condition == get_condition_for_task(c.flow_config, cur)
         IN IF condition = NoCondition
            THEN Finalize(es1, c1, now, "no_condition")
            ELSE LET next_task == evaluate_condition(condition, task_result.status)
                     c2 == [c1 EXCEPT !.current_task_name = next_task]
                 IN IF next_task = END THEN Finalize(es1, c2, now, "sentinel")
                    ELSE LoopHead(es1, c2, now)

\* StartCall giving the record a fresh history on every execute_flow
StartCallFresh(es, id, cfg, now) ==
    LoopHead([es EXCEPT !.status = "running", !.started_at = now,
                        !.completed_tasks = << >>, !.task_results = << >>],
             Frame(id, cfg, "start"), now)

\* flow_manager.py:135-142, then the loop up to the first await
StartCall(es, id, cfg, now) ==
    LoopHead([es EXCEPT !.status = "running", !.started_at = now],
             Frame(id, cfg, "start"), now)

NumDispatched(c) == Cardinality({i \in 1..Len(c.trace) : c.trace[i].ev = "dispatch"})

NewDispatch(old, new) ==
    IF Len(new.trace) > Len(old.trace) /\ new.trace[Len(new.trace)].ev = "dispatch"
    THEN << new.trace[Len(new.trace)].task >>
    ELSE << >>

----------------------------------------------------------------------------
Init ==
    /\ active_flows = {}
    /\ states = << >>
    /\ calls = << >>
    /\ dispatched = [id \in ExecIds |-> << >>]
    /\ clock = [id \in ExecIds |-> 1]
    /\ ret = << >>
    /\ evaluated = << >>
    /\ registry = ShippedRegistry

\* create_flow_execution handing out an id that a removed record held
create_flow_execution_reuse(cfg) ==
    IF \E i \in 1..Len(states) : i \notin active_flows
    THEN LET execution_id == First({i \in 1..Len(states) : i \notin active_flows}) IN
         /\ states' = [states EXCEPT
                ![execution_id] = FlowExecutionState(execution_id, cfg.name, clock[execution_id])]
         /\ active_flows' = active_flows \cup {execution_id}
         /\ clock' = [clock EXCEPT ![execution_id] = @ + 1]
         /\ UNCHANGED <<calls, dispatched>>
    ELSE /\ Len(states) < MaxExecs
         /\ LET execution_id == Len(states) + 1 IN
            /\ states' = Append(states, FlowExecutionState(execution_id, cfg.name, clock[execution_id]))
            /\ active_flows' = active_flows \cup {execution_id}
            /\ clock' = [clock EXCEPT ![execution_id] = @ + 1]
         /\ UNCHANGED <<calls, dispatched>>

\* FlowManager.create_flow_execution
create_flow_execution(cfg) ==
    /\ Len(states) < MaxExecs
    /\ LET execution_id == Len(states) + 1 IN
       /\ states' = Append(states, FlowExecutionState(execution_id, cfg.name, clock[execution_id]))
       /\ active_flows' = active_flows \cup {execution_id}
       /\ clock' = [clock EXCEPT ![execution_id] = @ + 1]
    /\ UNCHANGED <<calls, dispatched>>

\* execute_flow creating the missing record instead of raising
execute_flow_auto_create(id, cfg) ==
    /\ Len(calls) < MaxCalls
    /\ id \notin active_flows
    /\ id \in 1..Len(states)
    /\ calls' = Append(calls, Frame(id, cfg, "raised"))
    /\ active_flows' = active_flows \cup {id}
    /\ UNCHANGED <<states, dispatched, clock>>

\* FlowManager.execute_flow called with an id that is not in active_flows
execute_flow_not_found(id, cfg) ==
    /\ Len(calls) < MaxCalls
    /\ id \notin active_flows
    /\ calls' = Append(calls, Frame(id, cfg, "raised"))
    /\ UNCHANGED <<active_flows, states, dispatched, clock>>

\* execute_flow behind one lock for the whole manager: no call starts while
\* another is suspended on its task
execute_flow_serialized(id, cfg) ==
    /\ Len(calls) < MaxCalls
    /\ id \in active_flows
    /\ \A k \in 1..Len(calls) : calls[k].pc # "awaiting"
    /\ LET r == StartCall(states[id], id, cfg, clock[id]) IN
       /\ states' = [states EXCEPT ![id] = r.es]
       /\ calls' = Append(calls, r.call)
       /\ dispatched' = [dispatched EXCEPT ![id] = @ \o NewDispatch([trace |-> << >>], r.call)]
       /\ clock' = [clock EXCEPT ![id] = @ + 1]
    /\ UNCHANGED active_flows

\* FlowManager.execute_flow from the call to its first await (or its return)
execute_flow(id, cfg) ==
    /\ Len(calls) < MaxCalls
    /\ id \in active_flows
    /\ LET r == StartCall(states[id], id, cfg, clock[id]) IN
       /\ states' = [states EXCEPT ![id] = r.es]
       /\ calls' = Append(calls, r.call)
       /\ dispatched' = [dispatched EXCEPT ![id] = @ \o NewDispatch([trace |-> << >>], r.call)]
       /\ clock' = [clock EXCEPT ![id] = @ + 1]
    /\ UNCHANGED active_flows

\* task_done putting the record back under its id when the call returns
task_done_restore(k, outcome) ==
    /\ k \in 1..Len(calls)
    /\ calls[k].pc = "awaiting"
    /\ LET id == calls[k].execution_id
           r == AfterTask(states[id], calls[k], outcome, clock[id])
       IN /\ r.call.pc = "awaiting" => NumDispatched(calls[k]) < MaxDispatch
          /\ states' = [states EXCEPT ![id] = r.es]
          /\ calls' = [calls EXCEPT ![k] = r.call]
          /\ dispatched' = [dispatched EXCEPT ![id] = @ \o NewDispatch(calls[k], r.call)]
          /\ clock' = IF r.call.pc = "returned" THEN [clock EXCEPT ![id] = @ + 1] ELSE clock
          /\ active_flows' = IF r.call.pc = "returned" THEN active_flows \cup {id}
                             ELSE active_flows

\* The awaited task.execute of call k finishes; execute_flow runs on to the
\* next await or to its return.
task_done(k, outcome) ==
    /\ k \in 1..Len(calls)
    /\ calls[k].pc = "awaiting"
    /\ LET id == calls[k].execution_id
           r == AfterTask(states[id], calls[k], outcome, clock[id])
       IN /\ r.call.pc = "awaiting" => NumDispatched(calls[k]) < MaxDispatch
          /\ states' = [states EXCEPT ![id] = r.es]
          /\ calls' = [calls EXCEPT ![k] = r.call]
          /\ dispatched' = [dispatched EXCEPT ![id] = @ \o NewDispatch(calls[k], r.call)]
          /\ clock' = IF r.call.pc = "returned" THEN [clock EXCEPT ![id] = @ + 1] ELSE clock
    /\ UNCHANGED active_flows

\* remove_flow answering without deleting
remove_flow_keep(id) ==
    /\ id \in active_flows
    /\ UNCHANGED <<active_flows, states, calls, dispatched, clock>>

\* FlowManager.remove_flow
remove_flow(id) ==
    /\ id \in active_flows
    /\ active_flows' = active_flows \ {id}
    /\ UNCHANGED <<states, calls, dispatched, clock>>

Next ==
    \/ \E cfg \in CreateConfigs : create_flow_execution(cfg) /\ UNCHANGED aux
    \/ \E id \in ExecIds, cfg \in FlowConfigs :
           execute_flow_not_found(id, cfg) /\ UNCHANGED aux
    \/ \E id \in ExecIds, cfg \in FlowConfigs : execute_flow(id, cfg) /\ UNCHANGED aux
    \/ \E k \in 1..MaxCalls, outcome \in Outcomes : task_done(k, outcome) /\ UNCHANGED aux
    \/ \E id \in ExecIds : remove_flow(id) /\ UNCHANGED aux

Spec == Init /\ [][Next]_vars

----------------------------------------------------------------------------
\* Vocabulary of the properties.

Calls == 1..Len(calls)

Returned(k) == calls[k].pc = "returned"

\* Positions of the trace of call k
Pos(k) == 1..Len(calls[k].trace)

IsDispatch(k, i) == calls[k].trace[i].ev = "dispatch"

IsResult(k, i, s) == calls[k].trace[i].ev = "result" /\ calls[k].trace[i].status = s

IsFault(k, i) == calls[k].trace[i].ev = "fault"

\* Call k is the only execute_flow call made on its execution id
Alone(k) == \A j \in Calls : j # k => calls[j].execution_id # calls[k].execution_id

TaskNames(cfg) == [i \in 1..Len(cfg.tasks) |-> cfg.tasks[i].name]

SeqSet(q) == {q[i] : i \in 1..Len(q)}

IsPrefix(p, q) == Len(p) <= Len(q) /\ \A i \in 1..Len(p) : p[i] = q[i]

\* The status stored under key n of a task_results dict
StatusOf(d, n) == d[DictGet(d, n)].value.status

----------------------------------------------------------------------------
\* C1: short-circuit dispatch.  In no execute_flow call is a task dispatched
\* after a task of that call has produced a result with status FAILURE.
C1_NoDispatchAfterFailure ==
    \A k \in Calls : \A i \in Pos(k), j \in Pos(k) :
        (i < j /\ IsResult(k, i, "failure")) => ~IsDispatch(k, j)

\* C2: a call that has returned and in which some dispatched task produced a
\* FAILURE result returned the record with status FAILURE.
C2_FailureMeansFlowFailure ==
    \A k \in Calls :
        (Returned(k) /\ \E i \in Pos(k) : IsResult(k, i, "failure"))
            => calls[k].returned[1].status = "failure"

\* C3: all-success law.  A call, alone on its execution id, in which at least
\* one task ran and every task that ran returned SUCCESS, returns the record
\* with status SUCCESS and completed_tasks equal to the definition's task list.
C3_AllSuccess ==
    \A k \in Calls :
        ( /\ Returned(k)
          /\ Alone(k)
          /\ \E i \in Pos(k) : IsDispatch(k, i)
          /\ \A i \in Pos(k) : IsDispatch(k, i) \/ IsResult(k, i, "success") )
        => /\ calls[k].returned[1].status = "success"
           /\ calls[k].returned[1].completed_tasks = TaskNames(calls[k].flow_config)

\* C4: ENDED policy.  A call whose task loop stopped on the sentinel "end" or
\* on a missing condition, with no FAILURE among the record's task results,
\* returns the record with status ENDED.
C4_EndedPolicy ==
    \A k \in Calls :
        ( /\ Returned(k)
          /\ calls[k].stop \in {"sentinel", "no_condition"}
          /\ \A r \in DictValues(calls[k].returned[1].task_results) : r.status # "failure" )
        => calls[k].returned[1].status = "ended"

\* C5: an execute_flow call on an id whose record is RUNNING fails and leaves
\* the record as it was.
C5_AlreadyRunning ==
    [][ \A id \in ExecIds :
          ( /\ id \in active_flows
            /\ states[id].status = "running"
            /\ Len(calls') = Len(calls) + 1
            /\ calls'[Len(calls')].execution_id = id )
          => /\ calls'[Len(calls')].pc = "raised"
             /\ states'[id] = states[id] ]_vars

\* C6: at most one execute_flow call per execution id is awaiting a task.
C6_OneInFlight ==
    \A j \in Calls, k \in Calls :
        (j # k /\ calls[j].pc = "awaiting" /\ calls[k].pc = "awaiting")
            => calls[j].execution_id # calls[k].execution_id

\* C7: in every state, for every record, the keys of task_results are exactly
\* the names in completed_tasks.
C7_ResultsMatchCompleted ==
    \A id \in 1..Len(states) :
        DictKeys(states[id].task_results) = SeqSet(states[id].completed_tasks)

\* A record read while a call on it is suspended, with a failed task recorded
C7_Witness ==
    \E k \in Calls :
        /\ calls[k].pc = "awaiting"
        /\ calls[k].execution_id \in active_flows
        /\ \E r \in DictValues(states[calls[k].execution_id].task_results) :
               r.status = "failure"

\* C8: completed_tasks of a record is a prefix of the sequence of tasks
\* dispatched for its execution id.
C8_CompletedPrefixOfDispatched ==
    \A id \in 1..Len(states) : IsPrefix(states[id].completed_tasks, dispatched[id])

\* C9: in the chain task1 -> task2 -> task3 with task1 succeeding and task2
\* failing, the returned record has completed_tasks = [task1], a FAILURE
\* result under task2, and task3 in neither collection.
C9_FailedTaskNotCompleted ==
    \A k \in Calls :
        ( /\ Returned(k)
          /\ Alone(k)
          /\ calls[k].flow_config = ChainFlow
          /\ Len(calls[k].trace) = 4
          /\ IsResult(k, 2, "success")
          /\ IsResult(k, 4, "failure") )
        => LET es == calls[k].returned[1] IN
           /\ es.completed_tasks = << "task1" >>
           /\ "task2" \in DictKeys(es.task_results)
           /\ StatusOf(es.task_results, "task2") = "failure"
           /\ "task3" \notin DictKeys(es.task_results)
           /\ "task3" \notin SeqSet(es.completed_tasks)

\* C10: when the executor of a task raises, the record the call returns holds
\* a FAILURE result under that task's name.
C10_FaultRecorded ==
    \A k \in Calls : \A i \in Pos(k) :
        (Returned(k) /\ Alone(k) /\ IsFault(k, i))
        => LET es == calls[k].returned[1]
               n == calls[k].trace[i].task
           IN /\ n \in DictKeys(es.task_results)
              /\ StatusOf(es.task_results, n) = "failure"

----------------------------------------------------------------------------
Terminal == {"success", "failure", "ended"}

\* The record status transitions the state machine allows.  An execute_flow
\* call that finds nothing to await goes through RUNNING to its terminal
\* status within one step.
AllowedMove(a, b) ==
    \/ a = b
    \/ a = "created" /\ b \in {"running"} \cup Terminal
    \/ a = "running" /\ b \in Terminal

\* C11: a record's status only moves CREATED -> RUNNING -> terminal; once it
\* is terminal it never changes again and no task is dispatched for its id.
C11_StatusMonotone ==
    [][ \A id \in 1..Len(states) :
          /\ AllowedMove(states[id].status, states'[id].status)
          /\ states[id].status \in Terminal => dispatched'[id] = dispatched[id] ]_vars

\* The name of a task execute_flow cannot start under definition cfg
Undispatchable(cfg, name) ==
    /\ Truthy(name)
    /\ name # END
    /\ \/ \A i \in 1..Len(cfg.tasks) : cfg.tasks[i].name # name
       \/ \E i \in 1..Len(cfg.tasks) :
            /\ cfg.tasks[i].name = name
            /\ \A j \in 1..(i - 1) : cfg.tasks[j].name # name
            /\ cfg.tasks[i].task_type \notin task_registry

\* Call k has come to a task it cannot start: nothing is in flight and the
\* next task name is undispatchable
Stuck(k) ==
    /\ calls[k].pc # "awaiting"
    /\ calls[k].execution_id \in 1..Len(states)
    /\ Undispatchable(calls[k].flow_config, calls[k].current_task_name)

\* C13: execute_flow on an id that is not in the store raises and changes
\* neither the store's id set nor any record.
C13_NotFoundNoChange ==
    [][ ( /\ Len(calls') = Len(calls) + 1
          /\ calls'[Len(calls')].execution_id \notin active_flows )
        => /\ calls'[Len(calls')].pc = "raised"
           /\ active_flows' = active_flows
           /\ states' = states
           /\ dispatched' = dispatched ]_vars

\* A not-found call made on a removed id while another record is in the store
C13_Witness ==
    \E k \in Calls :
        /\ calls[k].pc = "raised"
        /\ calls[k].execution_id \in 1..Len(states)
        /\ calls[k].execution_id \notin active_flows
        /\ active_flows # {}

\* C14: when the current task is not in the definition's tasks or its
\* task_type is not registered, no executor is started for it, the call
\* dispatches nothing more and returns the record with status FAILURE.
C14_UndispatchableFails ==
    \A k \in Calls :
        Undispatchable(calls[k].flow_config, calls[k].current_task_name)
        => /\ calls[k].pc \in {"returned", "raised"}
           /\ calls[k].pc = "returned" =>
                /\ calls[k].returned[1].status = "failure"
                /\ \/ calls[k].trace = << >>
                   \/ calls[k].trace[Len(calls[k].trace)].ev = "result"

\* Both cases: an unknown task name and an unregistered task_type, each after
\* a first task that ran
C14_Witness ==
    /\ \E k \in Calls :
          /\ Returned(k) /\ Stuck(k)
          /\ calls[k].current_task_name = "ghost"
          /\ Len(calls[k].trace) = 2
    /\ \E k \in Calls :
          /\ Returned(k) /\ Stuck(k)
          /\ calls[k].current_task_name = "task2"
          /\ Len(calls[k].trace) = 2

\* C15: an unknown task name or an unregistered task_type makes execute_flow
\* raise: the call does not return normally.
C15_UndispatchableRaises ==
    \A k \in Calls : Stuck(k) => calls[k].pc # "returned"

\* C17: branching law.  Under BranchFlow, when task1 fails in a call alone on
\* its id, the next task is "end", nothing is dispatched after task1 and the
\* returned record has exactly one task result.
C17_BranchingLaw ==
    \A k \in Calls :
        ( /\ Alone(k)
          /\ calls[k].flow_config = BranchFlow
          /\ \E i \in Pos(k) : IsResult(k, i, "failure") /\ calls[k].trace[i].task = "task1" )
        => /\ Returned(k)
           /\ calls[k].current_task_name = END
           /\ Len(calls[k].trace) = 2
           /\ Len(calls[k].returned[1].task_results) = 1

C17_Witness ==
    \E k \in Calls :
        /\ Alone(k)
        /\ calls[k].flow_config = BranchFlow
        /\ Returned(k)
        /\ Len(calls[k].trace) = 2
        /\ IsResult(k, 2, "failure")

----------------------------------------------------------------------------
\* ConditionEvaluator.evaluate_condition on its own: the arguments are drawn
\* in the initial state and one step applies the function.

EvalNames == {"task1", "task2", "task3", END}

EvalOutcomes == {"success", "failure", "always", ""}

EvalInit ==
    /\ active_flows = {}
    /\ states = << >>
    /\ calls = << >>
    /\ dispatched = [id \in ExecIds |-> << >>]
    /\ clock = [id \in ExecIds |-> 1]
    /\ ret = << >>
    /\ registry = ShippedRegistry
    /\ evaluated \in
         [condition : {ConditionConfig("task1", o, t, f) :
                          o \in EvalOutcomes, t \in EvalNames, f \in EvalNames},
          status : ReturnedStatus,
          next_task : {None}]

\* next_task = self.condition_evaluator.evaluate_condition(condition, task_result)
\* (flow_manager.py:165)
evaluate ==
    /\ evaluated.next_task = None
    /\ evaluated' = [evaluated EXCEPT
           !.next_task = evaluate_condition(evaluated.condition, evaluated.status)]
    /\ UNCHANGED <<active_flows, states, calls, dispatched, clock, ret, registry>>

EvalNext == evaluate

EvalSpec == EvalInit /\ [][EvalNext]_vars

\* C16: evaluate_condition returns, for outcome "success", target_task_success
\* iff the status is SUCCESS; for outcome "failure", target_task_success iff
\* the status is FAILURE; for any other outcome, target_task_failure iff the
\* status is FAILURE; and the other target otherwise.
C16_EvaluateTable ==
    evaluated.next_task # None =>
        LET c == evaluated.condition
            st == evaluated.status
            takes_success ==
                CASE c.outcome = "success" -> st = "success"
                  [] c.outcome = "failure" -> st = "failure"
                  [] OTHER -> st # "failure"
        IN /\ takes_success => evaluated.next_task = c.target_task_success
           /\ ~takes_success => evaluated.next_task = c.target_task_failure

\* The inverted branch: outcome "failure" with a FAILURE status yields
\* target_task_success, here different from target_task_failure
C16_Witness ==
    /\ evaluated.next_task # None
    /\ evaluated.condition.outcome = "failure"
    /\ evaluated.status = "failure"
    /\ evaluated.condition.target_task_success = "task2"
    /\ evaluated.condition.target_task_failure = END
    /\ evaluated.next_task = "task2"

----------------------------------------------------------------------------
\* Termination of execute_flow.  The task loop has no bound of its own, so
\* this specification lets a call dispatch without limit.  It keeps the
\* state finite by holding only the first entries of the sequences that no
\* step of execute_flow reads back: completed_tasks, the frame's trace and
\* the dispatch history.  Status, current_task, task_results and the frame's
\* current_task_name, which decide every step, are kept exactly.

FirstN(q, n) == SubSeq(q, 1, IF Len(q) < n THEN Len(q) ELSE n)

\* The bookkeeping of a loop that goes round for ever is folded: a sequence
\* that outgrows n + m entries is cut back to its first n, so that a further
\* round is still a change of state.
Fold(q, n, m) == IF Len(q) > n + m THEN FirstN(q, n) ELSE q

BoundedState(es) == [es EXCEPT !.completed_tasks = FirstN(@, MaxDispatch)]

BoundedFrame(c) ==
    [c EXCEPT !.trace = Fold(@, MaxDispatch, MaxDispatch),
              !.returned = IF @ = << >> THEN @ ELSE << BoundedState(@[1]) >>]

\* task_done without the model's dispatch bound
task_done_live(k, outcome) ==
    /\ k \in 1..Len(calls)
    /\ calls[k].pc = "awaiting"
    /\ LET id == calls[k].execution_id
           r == AfterTask(states[id], calls[k], outcome, clock[id])
       IN /\ states' = [states EXCEPT ![id] = BoundedState(r.es)]
          /\ calls' = [calls EXCEPT ![k] = BoundedFrame(r.call)]
          /\ dispatched' = [dispatched EXCEPT
                 ![id] = FirstN(@ \o NewDispatch(calls[k], r.call), MaxDispatch)]
          /\ clock' = IF r.call.pc = "returned" THEN [clock EXCEPT ![id] = @ + 1] ELSE clock
    /\ UNCHANGED active_flows

\* One definition of each shape: a chain, no condition, a condition that
\* routes a task back to itself, a target that cannot be dispatched.
LiveConfigs == {ChainFlow, NoCondFlow, RetryFlow, BrokenFlow}

LiveNext ==
    \/ Len(states) < 1 /\ create_flow_execution(ChainFlow) /\ UNCHANGED aux
    \/ \E id \in ExecIds, cfg \in LiveConfigs : execute_flow(id, cfg) /\ UNCHANGED aux
    \/ \E k \in 1..MaxCalls, outcome \in Outcomes :
           task_done_live(k, outcome) /\ UNCHANGED aux

\* Every awaited task.execute eventually finishes.
LiveSpec ==
    /\ Init
    /\ [][LiveNext]_vars
    /\ \A k \in 1..MaxCalls :
          WF_vars(\E outcome \in Outcomes : task_done_live(k, outcome) /\ UNCHANGED aux)

\* The targets of the condition execute_flow finds for task n
Succ(cfg, n) ==
    LET c == get_condition_for_task(cfg, n)
    IN IF c = NoCondition THEN {} ELSE {c.target_task_success, c.target_task_failure}

RECURSIVE Reach(_, _, _)
Reach(cfg, S, i) ==
    IF i = 0 THEN S
    ELSE Reach(cfg, S \cup UNION {Succ(cfg, n) : n \in S}, i - 1)

\* Some task of cfg can be reached again from itself through condition targets
RoutesBack(cfg) ==
    \E i \in 1..Len(cfg.tasks) :
        cfg.tasks[i].name \in Reach(cfg, Succ(cfg, cfg.tasks[i].name), Len(cfg.tasks))

\* C12: if every awaited task.execute eventually finishes, every execute_flow
\* call on an existing id eventually returns and leaves the record in a
\* terminal status, whatever the definition, conditions that route back to an
\* earlier task included.
C12_Terminates ==
    \A k \in 1..MaxCalls :
        (k <= Len(calls) /\ calls[k].pc = "awaiting")
            ~> ( /\ k <= Len(calls)
                 /\ calls[k].pc = "returned"
                 /\ calls[k].returned[1].status \in Terminal )

\* The same for the definitions whose conditions never route back to a task:
\* the loop of execute_flow ends only because such a definition runs out of
\* tasks.
TerminatesAcyclic ==
    \A k \in 1..MaxCalls :
        (k <= Len(calls) /\ calls[k].pc = "awaiting" /\ ~RoutesBack(calls[k].flow_config))
            ~> ( /\ k <= Len(calls)
                 /\ calls[k].pc = "returned"
                 /\ calls[k].returned[1].status \in Terminal )

----------------------------------------------------------------------------
\* The store: create_flow_execution, get_flow_status and remove_flow called
\* in any order by any number of callers, while one execute_flow call may be
\* in flight. None of the three awaits, so each is one step. ret holds what
\* the last of them returned.

\* What a call returned: the id of a create, the boolean of a remove, the
\* record of a get (no record: the None of dict.get)
Ret(op, id, ok, record) == [op |-> op, id |-> id, ok |-> ok, record |-> record]

\* create_flow_execution and the id it returns
create_call(cfg) ==
    /\ create_flow_execution(cfg)
    /\ ret' = << Ret("create", First(active_flows' \ active_flows), TRUE, << >>) >>
    /\ UNCHANGED <<evaluated, registry>>

\* FlowManager.get_flow_status: the record, or nothing for an id not in the store
get_flow_status(id) ==
    /\ ret' = << Ret("get", id, id \in active_flows,
                    IF id \in active_flows THEN << states[id] >> ELSE << >>) >>
    /\ UNCHANGED <<active_flows, states, calls, dispatched, clock, evaluated, registry>>

\* FlowManager.remove_flow and the boolean it returns
remove_call(id) ==
    \/ /\ remove_flow(id)
       /\ ret' = << Ret("remove", id, TRUE, << >>) >>
       /\ UNCHANGED <<evaluated, registry>>
    \/ /\ id \notin active_flows
       /\ ret' = << Ret("remove", id, FALSE, << >>) >>
       /\ UNCHANGED <<active_flows, states, calls, dispatched, clock, evaluated, registry>>

StoreNext ==
    \/ \E cfg \in CreateConfigs : create_call(cfg)
    \/ \E id \in ExecIds : get_flow_status(id)
    \/ \E id \in ExecIds : remove_call(id)
    \/ \E id \in ExecIds : Len(calls) < 1 /\ execute_flow(id, ChainFlow) /\ UNCHANGED aux
    \/ \E k \in 1..MaxCalls, outcome \in Outcomes : task_done(k, outcome) /\ UNCHANGED aux

StoreSpec == Init /\ [][StoreNext]_vars

\* The step is a call of op: ret changes to what op returned
Called(op) == ret' # ret /\ ret'[1].op = op

\* Every id the store ever held: records are never taken off the heap
EverHeld == 1..Len(states)

\* C19: a create_flow_execution step returns an id that no record holds or
\* ever held, adds under it a record in status CREATED with current_task
\* unset and empty completed_tasks and task_results, and leaves every other
\* record as it was; the ids of the store change only by a create adding its
\* id and by a remove deleting its id, so that they are always the ids
\* created and not yet removed.
C19_CreateFresh ==
    [][ /\ Called("create") =>
            LET id == ret'[1].id IN
            /\ id \notin EverHeld
            /\ active_flows' = active_flows \cup {id}
            /\ Len(states') = Len(states) + 1
            /\ states'[id].flow_id = id
            /\ states'[id].status = "created"
            /\ states'[id].current_task = None
            /\ states'[id].completed_tasks = << >>
            /\ states'[id].task_results = << >>
            /\ \A j \in EverHeld : states'[j] = states[j]
        /\ Called("remove") =>
            active_flows' = IF ret'[1].ok THEN active_flows \ {ret'[1].id} ELSE active_flows
        /\ ~Called("create") /\ ~Called("remove") => active_flows' = active_flows
        /\ active_flows' \subseteq 1..Len(states')
      ]_vars

\* The second record was created after the first had been removed
C19_Witness ==
    /\ ret # << >>
    /\ ret[1].op = "create"
    /\ ret[1].id = 2
    /\ active_flows = {2}
    /\ states[2].status = "created"
    /\ states[1].status \in Terminal

\* C20: remove_flow returns true exactly when the id is in the store, the id
\* is then absent and every other record unchanged; for an id not in the
\* store get_flow_status returns nothing and remove_flow returns false, and
\* neither changes the store.
C20_RemoveFrame ==
    [][ /\ Called("remove") =>
            LET id == ret'[1].id IN
            /\ ret'[1].ok = (id \in active_flows)
            /\ id \notin active_flows'
            /\ \A j \in active_flows \ {id} : j \in active_flows' /\ states'[j] = states[j]
            /\ id \notin active_flows => active_flows' = active_flows /\ states' = states
        /\ Called("get") =>
            LET id == ret'[1].id IN
            id \notin active_flows =>
                ret'[1].record = << >> /\ active_flows' = active_flows /\ states' = states
      ]_vars

\* remove_flow has returned true for one record while the other, running, stays
C20_Witness ==
    /\ ret # << >>
    /\ ret[1].op = "remove"
    /\ ret[1].ok
    /\ ret[1].id \notin active_flows
    /\ \E j \in active_flows : states[j].status = "running"

----------------------------------------------------------------------------
\* The queries: get_flow_status, get_all_flows and get_flow_summary called
\* between the steps of create, remove and one execute_flow call.  Here ret
\* holds, per id, what get_flow_status returned since the last step of an
\* execute_flow call, and evaluated holds what the last step returned if it
\* was a query.

\* The keys of active_flows in dict order: ids are handed out in increasing
\* order and a deleted key never comes back
StoreKeys ==
    CHOOSE f \in [1..Cardinality(active_flows) -> active_flows] :
        \A i, j \in 1..Cardinality(active_flows) : i < j => f[i] < f[j]

\* self.active_flows.values()
StoreValues == [i \in 1..Cardinality(active_flows) |-> states[StoreKeys[i]]]

\* sum(1 for f in flows if f.status == status)
CountStatus(flows, status) == Cardinality({i \in 1..Len(flows) : flows[i].status = status})

Summary(flows) ==
    [total_flows |-> Len(flows),
     status_counts |-> [status \in FlowStatus |-> CountStatus(flows, status)],
     registered_task_types |-> task_registry]

\* get_flow_summary counting every record ever created, removed or not
get_flow_summary_heap == Summary(states)

\* FlowManager.get_flow_summary
get_flow_summary == Summary(StoreValues)

\* FlowManager.get_all_flows: a copy of the dict, holding the same records
get_all_flows == StoreValues

NoSummary == Summary(<< >>)

Query(op, id, flows, summary) == [op |-> op, id |-> id, flows |-> flows, summary |-> summary]

ReadInit ==
    /\ active_flows = {}
    /\ states = << >>
    /\ calls = << >>
    /\ dispatched = [id \in ExecIds |-> << >>]
    /\ clock = [id \in ExecIds |-> 1]
    /\ ret = [id \in ExecIds |-> << >>]
    /\ evaluated = << >>
    /\ registry = ShippedRegistry

\* get_flow_status written as a pop: the record is handed out and dropped
status_read_pop(id) ==
    LET found == IF id \in active_flows THEN << states[id] >> ELSE << >> IN
    /\ ret' = [ret EXCEPT ![id] = << Ret("get", id, id \in active_flows, found) >>]
    /\ evaluated' = << Query("get", id, found, NoSummary) >>
    /\ active_flows' = active_flows \ {id}
    /\ UNCHANGED <<states, calls, dispatched, clock, registry>>

\* FlowManager.get_flow_status
status_read(id) ==
    LET found == IF id \in active_flows THEN << states[id] >> ELSE << >> IN
    /\ ret' = [ret EXCEPT ![id] = << Ret("get", id, id \in active_flows, found) >>]
    /\ evaluated' = << Query("get", id, found, NoSummary) >>
    /\ UNCHANGED <<active_flows, states, calls, dispatched, clock, registry>>

all_flows_read ==
    /\ evaluated' = << Query("list", 0, get_all_flows, NoSummary) >>
    /\ UNCHANGED <<active_flows, states, calls, dispatched, clock, ret, registry>>

summary_read ==
    /\ evaluated' = << Query("summary", 0, << >>, get_flow_summary) >>
    /\ UNCHANGED <<active_flows, states, calls, dispatched, clock, ret, registry>>

\* A step that is no query
Forget == evaluated' = << >> /\ UNCHANGED <<ret, registry>>

\* A step of an execute_flow call: what get_flow_status returned before it
\* is no longer held
ForgetAll ==
    evaluated' = << >> /\ ret' = [id \in ExecIds |-> << >>] /\ UNCHANGED registry

ReadNext ==
    \/ \E cfg \in CreateConfigs : create_flow_execution(cfg) /\ Forget
    \/ \E id \in ExecIds : remove_flow(id) /\ Forget
    \/ \E id \in ExecIds : Len(calls) < 1 /\ execute_flow(id, ChainFlow) /\ ForgetAll
    \/ \E k \in 1..MaxCalls, outcome \in Outcomes : task_done(k, outcome) /\ ForgetAll
    \/ \E id \in ExecIds : status_read(id)
    \/ all_flows_read
    \/ summary_read

ReadSpec == ReadInit /\ [][ReadNext]_vars

\* The last step was the query op, and nothing has happened since
Asked(op) == evaluated # << >> /\ evaluated[1].op = op

InStatus(status) == {id \in active_flows : states[id].status = status}

\* C22: get_flow_summary reports as total the number of records in the
\* store and for each status the number of records now in that status, and
\* the five counts add up to the total.
C22_SummaryCounts ==
    Asked("summary") =>
        LET summary == evaluated[1].summary IN
        /\ summary.total_flows = Cardinality(active_flows)
        /\ DOMAIN summary.status_counts = {"created", "running", "success", "failure", "ended"}
        /\ \A status \in FlowStatus :
               summary.status_counts[status] = Cardinality(InStatus(status))
        /\ summary.total_flows =
               summary.status_counts["created"] + summary.status_counts["running"]
               + summary.status_counts["success"] + summary.status_counts["failure"]
               + summary.status_counts["ended"]

\* The summary of a store that holds one RUNNING record after another
\* record was removed
C22_Witness ==
    /\ Asked("summary")
    /\ Len(states) = 2
    /\ active_flows = {2}
    /\ states[2].status = "running"
    /\ evaluated[1].summary.total_flows = 1
    /\ evaluated[1].summary.status_counts["running"] = 1

\* The queries change no record and not the ids of the store
ReadOnly == evaluated' # << >> => active_flows' = active_flows /\ states' = states

\* C23 as stated: the queries are read-only, and two get_flow_status calls
\* on the same id with no step of an execute_flow call between them return
\* the same.
C23_Idempotent ==
    [][ /\ ReadOnly
        /\ \A id \in ExecIds :
               (ret[id] # << >> /\ ret'[id] # << >>) => ret'[id] = ret[id]
      ]_vars

\* C23 amended: the queries are read-only, and two get_flow_status calls on
\* the same id return the same when between them there is no step of an
\* execute_flow call and the id is neither created nor removed.
C23_IdempotentWhileStored ==
    [][ /\ ReadOnly
        /\ \A id \in ExecIds :
               ( /\ ret[id] # << >> /\ ret'[id] # << >>
                 /\ ret[id][1].ok = (id \in active_flows) )
                   => ret'[id] = ret[id]
      ]_vars

\* get_flow_status has returned the RUNNING record 1 a second time, the
\* other id having been created, read and removed in between
C23_Witness ==
    /\ Asked("get")
    /\ evaluated[1].id = 1
    /\ ret[1] # << >> /\ ret[1][1].ok /\ ret[1][1].record[1].status = "running"
    /\ ret[2] # << >> /\ ret[2][1].ok
    /\ active_flows = {1}

\* The ids whose record was removed
Removed == EverHeld \ active_flows

\* C33: an id removed while an execute_flow call on it is suspended never
\* comes back into the store, whatever the call goes on to do with the
\* record: get_flow_status finds nothing under it and get_flow_summary does
\* not count it.
C33_RemovedStaysRemoved ==
    /\ [][ \A id \in Removed : id \notin active_flows' ]_vars
    /\ []((Asked("get") /\ evaluated[1].id \in Removed) => evaluated[1].flows = << >>)
    /\ [](Asked("summary") =>
            evaluated[1].summary.total_flows = Len(states) - Cardinality(Removed))

\* Record 1 was removed while its call was in flight: the call has gone on
\* to its second task, and get_flow_status has since found nothing under 1
C33_Witness ==
    /\ 1 \in Removed
    /\ Len(calls) = 1
    /\ calls[1].execution_id = 1 /\ calls[1].pc = "awaiting"
    /\ states[1].status = "running" /\ states[1].completed_tasks = << "task1" >>
    /\ Asked("get") /\ evaluated[1].id = 1 /\ evaluated[1].flows = << >>

----------------------------------------------------------------------------
\* Records and the store under Spec.

\* C21: remove_flow never deletes a record whose status is RUNNING, so that
\* an execute_flow call suspended on a task always has its record in the
\* store.
C21_NoRemoveRunning ==
    [][ /\ \A id \in active_flows \ active_flows' : states[id].status # "running"
        /\ \A k \in 1..Len(calls') :
               calls'[k].pc = "awaiting" => calls'[k].execution_id \in active_flows'
      ]_vars

\* The step belongs to an execute_flow call on id: the call starts, or goes
\* on from its await
ExecuteStep(id) ==
    \/ /\ Len(calls') = Len(calls) + 1
       /\ calls'[Len(calls')].execution_id = id
    \/ \E k \in Calls : calls'[k] # calls[k] /\ calls[k].execution_id = id

Awaiting(k) == k \in Calls /\ calls[k].pc = "awaiting"

\* C27: a step of an execute_flow call on one id leaves the record of every
\* other id as it was; and while a call is suspended on its task, a call on
\* another id can start, and a call suspended on another id can go on.
C27_Independent ==
    /\ [][ \A id \in ExecIds : ExecuteStep(id) =>
              \A j \in 1..Len(states) : j # id => states'[j] = states[j] ]_vars
    /\ [](\A k \in 1..MaxCalls : Awaiting(k) =>
            /\ \A j \in active_flows :
                   (j # calls[k].execution_id /\ Len(calls) < MaxCalls)
                       => ENABLED execute_flow(j, ChainFlow)
            /\ \A k2 \in 1..MaxCalls :
                   (Awaiting(k2) /\ calls[k2].execution_id # calls[k].execution_id)
                       => ENABLED task_done(k2, "raise"))

\* A call on record 2 started and returned while a call on record 1 stayed
\* suspended on its first task
C27_Witness ==
    /\ Len(calls) = 2
    /\ calls[1].execution_id = 1 /\ calls[1].pc = "awaiting" /\ Len(calls[1].trace) = 1
    /\ calls[2].execution_id = 2 /\ Returned(2) /\ Len(calls[2].trace) = 6
    /\ states[1].status = "running" /\ states[1].completed_tasks = << >>
    /\ states[2].status = "success"

\* The definition create_flow_execution was called with for record id
CreatedWith(id) == CHOOSE cfg \in CreateConfigs : cfg.name = states[id].flow_name

\* C28: the tasks dispatched for an execution id are tasks of the definition
\* the id was created with.
C28_DispatchesCreatedDefinition ==
    \A k \in Calls : \A i \in Pos(k) :
        IsDispatch(k, i) =>
            calls[k].trace[i].task \in SeqSet(TaskNames(CreatedWith(calls[k].execution_id)))

\* C29: a record in a terminal status has current_task unset and ended_at
\* set, and a record with current_task set is RUNNING.
C29_TerminalShape ==
    \A id \in active_flows :
        /\ states[id].status \in Terminal =>
               states[id].current_task = None /\ states[id].ended_at \in Nat
        /\ states[id].current_task # None => states[id].status = "running"

\* C30: completed_tasks is append-only: in every step the old value of every
\* record's completed_tasks is a prefix of the new one.
C30_AppendOnly ==
    [][ \A id \in 1..Len(states) :
            IsPrefix(states[id].completed_tasks, states'[id].completed_tasks) ]_vars

\* A second execute_flow on the same id has added to the history of the first
C30_Witness ==
    \E id \in active_flows :
        /\ Len(states[id].completed_tasks) = 2
        /\ \A k \in Calls : calls[k].execution_id = id /\ Returned(k)
        /\ Len(calls) = 2
        /\ Len(calls[1].trace) = 2 /\ Len(calls[2].trace) = 2

----------------------------------------------------------------------------
\* TaskFactory: register_task and create_task in any order.  Here ret holds
\* what the last call was and what it returned, and evaluated the class of
\* the last register_task call for each task_type (the shipped class where
\* there was no such call, None where there is no binding at all).

TaskTypes == {"fetch_data", "process_data", "print"}

TaskClasses == {"FetchDataTask", "ProcessDataTask", "StoreDataTask", "PrintTask"}

FactoryCall(op, task_type, task_class, ok) ==
    [op |-> op, task_type |-> task_type, task_class |-> task_class, ok |-> ok]

RegistryInit ==
    /\ active_flows = {}
    /\ states = << >>
    /\ calls = << >>
    /\ dispatched = [id \in ExecIds |-> << >>]
    /\ clock = [id \in ExecIds |-> 1]
    /\ ret = << >>
    /\ evaluated = [task_type \in TaskTypes \cup task_registry |->
                       IF task_type \in task_registry THEN ShippedRegistry[task_type] ELSE None]
    /\ registry = ShippedRegistry

\* register_task written with setdefault: a bound key keeps its class
register_task_setdefault(task_type, task_class) ==
    /\ registry' = [t \in DOMAIN registry \cup {task_type} |->
                       IF t \in DOMAIN registry THEN registry[t] ELSE task_class]
    /\ ret' = << FactoryCall("register", task_type, task_class, TRUE) >>
    /\ UNCHANGED <<active_flows, states, calls, dispatched, clock>>

\* TaskFactory.register_task: cls._task_registry[task_type] = task_class
register_task(task_type, task_class) ==
    /\ registry' = [t \in DOMAIN registry \cup {task_type} |->
                       IF t = task_type THEN task_class ELSE registry[t]]
    /\ ret' = << FactoryCall("register", task_type, task_class, TRUE) >>
    /\ UNCHANGED <<active_flows, states, calls, dispatched, clock>>

\* TaskFactory.create_task: the instance of the class found under
\* config.task_type, or ValueError("Unknown task type")
create_task(config) ==
    LET task_class == IF config.task_type \in DOMAIN registry
                      THEN registry[config.task_type] ELSE None
    IN /\ ret' = << FactoryCall("create", config.task_type, task_class, Truthy(task_class)) >>
       /\ UNCHANGED <<active_flows, states, calls, dispatched, clock, registry>>

RegistryNext ==
    \/ \E task_type \in TaskTypes, task_class \in TaskClasses :
           /\ register_task(task_type, task_class)
           /\ evaluated' = [evaluated EXCEPT ![task_type] = task_class]
    \/ \E task_type \in TaskTypes \cup task_registry :
           create_task(TaskConfig("task1", task_type)) /\ UNCHANGED evaluated

RegistrySpec == RegistryInit /\ [][RegistryNext]_vars

FactoryCalled(op) == ret' # ret /\ ret'[1].op = op

\* C24: register_task replaces the binding of its key and leaves the binding
\* of every other key as it was; create_task returns an instance of the
\* class last registered under the task_type, and fails when the task_type
\* has no binding.
C24_Registry ==
    [][ /\ FactoryCalled("register") =>
            LET task_type == ret'[1].task_type IN
            /\ DOMAIN registry' = DOMAIN registry \cup {task_type}
            /\ registry'[task_type] = ret'[1].task_class
            /\ \A t \in DOMAIN registry \ {task_type} : registry'[t] = registry[t]
        /\ FactoryCalled("create") =>
            LET task_type == ret'[1].task_type IN
            /\ registry' = registry
            /\ ret'[1].ok = (task_type \in DOMAIN registry)
            /\ ret'[1].task_class = evaluated[task_type]
      ]_vars

\* create_task has built a task of the class that a second register_task
\* call bound to a shipped key, while a key never registered is unbound
C24_Witness ==
    /\ ret # << >>
    /\ ret[1].op = "create"
    /\ ret[1].task_type = "fetch_data"
    /\ ret[1].ok
    /\ ret[1].task_class = "PrintTask"
    /\ "print" \notin DOMAIN registry
    /\ registry["process_data"] = "StoreDataTask"

----------------------------------------------------------------------------
\* Definition ingestion: POST /flow/create with a JSON document.  A dict is
\* a function whose domain is the keys present.  Here evaluated holds the
\* request: its document, how it ended, and the FlowConfig that was loaded.

Has(d, k) == k \in DOMAIN d

Restrict(d, K) == [k \in K |-> d[k]]

DocNames == {"task1", "Fetch Data"}

TaskKeys == {"name", "description", "task_type"}

ConditionKeys ==
    {"name", "description", "source_task", "outcome",
     "target_task_success", "target_task_failure"}

FlowKeys == {"id", "name", "start_task", "tasks", "conditions"}

TaskDicts ==
    {Restrict([name |-> n, description |-> "Fetch data", task_type |-> "fetch_data"], K) :
        n \in DocNames, K \in SUBSET TaskKeys}

ConditionDicts ==
    {Restrict([name |-> "condition_task1_result", description |-> "Evaluate",
               source_task |-> "task1", outcome |-> "success",
               target_task_success |-> t, target_task_failure |-> END], K) :
        t \in {"Fetch Data", END, "ghost"},
        K \in {ConditionKeys, ConditionKeys \ {"description"}}}

TaskLists == UNION {[1..n -> TaskDicts] : n \in 0..MaxTasks}

ConditionLists == {<< >>} \cup {<< c >> : c \in ConditionDicts}

FlowDicts ==
    {Restrict([id |-> "flow123", name |-> "chain", start_task |-> st,
               tasks |-> ts, conditions |-> cs], K) :
        st \in {"task1", "ghost"}, ts \in TaskLists, cs \in ConditionLists,
        K \in SUBSET FlowKeys}

\* The document as the spec states it, and the same under the key "flow"
Documents == FlowDicts \cup {[flow |-> fd] : fd \in FlowDicts}

\* task_data['name'].replace(' ', '_').lower()
DefaultTaskType(name) == IF name = "Fetch Data" THEN "fetch_data" ELSE name

Loaded(cfg) == [raised |-> FALSE, config |-> << cfg >>]

KeyError == [raised |-> TRUE, config |-> << >>]

\* FlowManager.load_flow_config
load_flow_config(config_dict) ==
    LET flow_data == IF Has(config_dict, "flow") THEN config_dict["flow"] ELSE << >>
        task_list == IF Has(flow_data, "tasks") THEN flow_data["tasks"] ELSE << >>
        condition_list == IF Has(flow_data, "conditions") THEN flow_data["conditions"] ELSE << >>
    IN IF \E i \in 1..Len(task_list) :
              ~Has(task_list[i], "name") \/ ~Has(task_list[i], "description")
       THEN KeyError
       ELSE IF \E i \in 1..Len(condition_list) : \E k \in ConditionKeys :
                  ~Has(condition_list[i], k)
       THEN KeyError
       ELSE IF ~Has(flow_data, "id") \/ ~Has(flow_data, "name") \/ ~Has(flow_data, "start_task")
       THEN KeyError
       ELSE Loaded(FlowConfig(
                flow_data["name"], flow_data["start_task"],
                [i \in 1..Len(task_list) |->
                    TaskConfig(task_list[i]["name"],
                               IF Has(task_list[i], "task_type")
                               THEN task_list[i]["task_type"]
                               ELSE DefaultTaskType(task_list[i]["name"]))],
                [i \in 1..Len(condition_list) |->
                    ConditionConfig(condition_list[i]["source_task"],
                                    condition_list[i]["outcome"],
                                    condition_list[i]["target_task_success"],
                                    condition_list[i]["target_task_failure"])]))

LoadInit ==
    /\ active_flows = {}
    /\ states = << >>
    /\ calls = << >>
    /\ dispatched = [id \in ExecIds |-> << >>]
    /\ clock = [id \in ExecIds |-> 1]
    /\ ret = << >>
    /\ registry = ShippedRegistry
    /\ evaluated \in [config_dict : Documents, outcome : {"pending"}, config : {<< >>}]

\* api.py create_flow: load_flow_config raises, the answer is HTTP 400
create_flow_rejected ==
    /\ evaluated.outcome = "pending"
    /\ load_flow_config(evaluated.config_dict).raised
    /\ evaluated' = [evaluated EXCEPT !.outcome = "raised"]
    /\ UNCHANGED <<active_flows, states, calls, dispatched, clock, ret, registry>>

\* api.py create_flow: the document is loaded and a record is created
create_flow ==
    /\ evaluated.outcome = "pending"
    /\ LET r == load_flow_config(evaluated.config_dict) IN
       /\ ~r.raised
       /\ create_flow_execution(r.config[1])
       /\ evaluated' = [evaluated EXCEPT !.outcome = "loaded", !.config = r.config]
    /\ UNCHANGED <<ret, registry>>

LoadNext == create_flow_rejected \/ create_flow

LoadSpec == LoadInit /\ [][LoadNext]_vars

\* The flow document of a request, whether it is the body or under "flow"
Document == IF Has(evaluated.config_dict, "flow")
            THEN evaluated.config_dict["flow"] ELSE evaluated.config_dict

\* The document lacks id, name or tasks, or has a task without task_type
Lacking(d) ==
    \/ ~Has(d, "id") \/ ~Has(d, "name") \/ ~Has(d, "tasks")
    \/ \E i \in 1..Len(d["tasks"]) : ~Has(d["tasks"][i], "task_type")

\* The document has the stated shape, description being optional
StatedShape(d) ==
    /\ DOMAIN d = FlowKeys
    /\ \A i \in 1..Len(d["tasks"]) : {"name", "task_type"} \subseteq DOMAIN d["tasks"][i]
    /\ \A i \in 1..Len(d["conditions"]) :
           ConditionKeys \ {"description"} \subseteq DOMAIN d["conditions"][i]

\* C25: a document that lacks id, name or tasks, or has a task without
\* task_type, is rejected and no record is created; a document of the stated
\* shape is accepted, with or without the descriptions.
C25_Ingestion ==
    evaluated.outcome # "pending" =>
        /\ Lacking(Document) => evaluated.outcome = "raised" /\ active_flows = {}
        /\ StatedShape(Document) => evaluated.outcome = "loaded"

\* The definition is well formed: task names differ, start_task and the
\* condition targets name tasks (or the sentinel)
WellFormed(cfg) ==
    /\ \A i, j \in 1..Len(cfg.tasks) : cfg.tasks[i].name = cfg.tasks[j].name => i = j
    /\ cfg.start_task \in SeqSet(TaskNames(cfg))
    /\ \A i \in 1..Len(cfg.conditions) :
           {cfg.conditions[i].target_task_success, cfg.conditions[i].target_task_failure}
               \subseteq SeqSet(TaskNames(cfg)) \cup {END}

\* C26: every definition accepted at load time has unique task names, a
\* start_task that names one of its tasks, and condition targets that are
\* the sentinel or one of its tasks.
C26_LoadedWellFormed ==
    evaluated.outcome = "loaded" => WellFormed(evaluated.config[1])

----------------------------------------------------------------------------
\* How execute_flow ends, under Spec.

\* Call k ends in this step: it is made and ends at once, or it goes on
\* from its await to its end
Ends(k) ==
    /\ calls'[k].pc \in {"returned", "raised"}
    /\ k \in Calls => calls[k].pc = "awaiting"

\* C31: when execute_flow returns, the record it returns is the record of
\* its id in a status SUCCESS, FAILURE or ENDED; it raises instead of
\* returning only when the id is not in the store when it is called.
C31_ReturnsTerminal ==
    [][ \A k \in 1..Len(calls') : Ends(k) =>
            LET id == calls'[k].execution_id IN
            /\ calls'[k].pc = "returned" =>
                   /\ calls'[k].returned[1].status \in Terminal
                   /\ calls'[k].returned[1] = states'[id]
            /\ calls'[k].pc = "raised" => k \notin Calls /\ id \notin active_flows
      ]_vars

\* One call was refused for an id not in the store; the other went through
\* the except branch after its second task raised, and returned FAILURE
C31_Witness ==
    /\ Len(calls) = 2
    /\ calls[1].pc = "raised"
    /\ Returned(2)
    /\ calls[2].stop = "exception"
    /\ Len(calls[2].trace) = 4
    /\ calls[2].returned[1].status = "failure"

\* C32: when the task loop is left without an exception, the status the call
\* leaves depends on the record's task_results alone: SUCCESS iff every
\* result is SUCCESS (also when there is none), FAILURE iff some result is
\* FAILURE, ENDED only when no result is FAILURE and some result is neither.
C32_FinalStatus ==
    \A k \in Calls : (Returned(k) /\ calls[k].stop # "exception") =>
        LET status == calls[k].returned[1].status
            results == DictValues(calls[k].returned[1].task_results)
        IN /\ status = "success" <=> \A r \in results : r.status = "success"
           /\ status = "failure" <=> \E r \in results : r.status = "failure"
           /\ status = "ended" =>
                  /\ \A r \in results : r.status # "failure"
                  /\ \E r \in results : r.status \notin {"success", "failure"}

\* A call left the loop with a SKIPPED and a FAILURE result on record
C32_Witness ==
    \E k \in Calls :
        /\ Returned(k)
        /\ calls[k].stop = "sentinel"
        /\ calls[k].returned[1].status = "failure"
        /\ \E r \in DictValues(calls[k].returned[1].task_results) : r.status = "skipped"
        /\ \E r \in DictValues(calls[k].returned[1].task_results) : r.status = "failure"

----------------------------------------------------------------------------
\* Definitions that list a task named like the sentinel.

\* A task named "end" is listed and is the target of task1's condition on
\* success; a failure of task1 leads back to task1.
SentinelTargetFlow ==
    FlowConfig("sentinel_target", "task1",
        << TaskConfig("task1", "fetch_data"), TaskConfig(END, "store_data") >>,
        << ConditionConfig("task1", "success", END, "task1") >>)

SentinelConfigs == {SentinelFlow, SentinelTargetFlow}

SentinelNext ==
    \/ \E cfg \in CreateConfigs : create_flow_execution(cfg) /\ UNCHANGED aux
    \/ \E id \in ExecIds, cfg \in SentinelConfigs : execute_flow(id, cfg) /\ UNCHANGED aux
    \/ \E k \in 1..MaxCalls, outcome \in Outcomes : task_done(k, outcome) /\ UNCHANGED aux

SentinelSpec == Init /\ [][SentinelNext]_vars

====
